---- MODULE Spec2Model ----
(***************************************************************************)
(* Poker hand evaluator of src/submission/hands.py over the card model of *)
(* src/submission/cards.py.  A card is a record [suit, value] holding the *)
(* integer values of Card.Suit and Card.Value.  Lists are sequences.      *)
(* The enum members of Hand are singletons: Hand.with_cards stores the    *)
(* relevant cards in the member itself (hand_cards) and returns the       *)
(* member, so a result is a reference to one of the ten members.          *)
(***************************************************************************)
EXTENDS Integers, Sequences, FiniteSets, TLC

VARIABLES
  hand_cards,  \* the cards attribute of each Hand member ("self.cards")
  cards,       \* the list a sequential caller passes to get_best_hand
  result,      \* what that call gave: a member name, or "ValueError"
  seen,        \* result.cards as the caller reads it when the call returns
  calls,       \* number of calls the sequential caller has made
  held,        \* the first result the caller got, with the cards it showed
  t_cards,     \* per thread: the list passed to get_best_hand
  t_pc,        \* per thread: position in the call
  t_result,    \* per thread: the member returned, or "ValueError"
  t_seen,      \* per thread: result.cards as read after the return
  card_str,    \* the string last passed to Card.from_str
  parsed,      \* what that call gave: a card, or the error it raised
  made,        \* the Card objects constructed so far; the index is the identity
  bot,         \* the class of the bot object: ConservativeBot or SmartBot
  this,        \* the attributes of the bot object (its self)
  ask,         \* the arguments of the last declare_action call
  declared,    \* what that call returned, with the raise limits offered
  in_round,    \* a round has started and its result has not been sent
  reported     \* sum of the bot's own calls and raises reported this round

eval_vars == <<hand_cards, cards, result, seen, calls, held,
               t_cards, t_pc, t_result, t_seen>>

card_vars == <<card_str, parsed, made>>

bot_vars == <<bot, this, ask, declared, in_round, reported>>

vars == <<eval_vars, card_vars, bot_vars>>

----------------------------------------------------------------------------
(* Card model (cards.py)                                                   *)

HEARTS == 1
SPADES == 2
DIAMONDS == 3
CLUBS == 4

ACE == 1
TEN == 10
JACK == 11
QUEEN == 12
KING == 13

Suit == HEARTS..CLUBS

Value == ACE..KING

Card(suit, value) == [suit |-> suit, value |-> value]

(* a string is the sequence of its characters: card_str[0] is s[1]         *)
suit_map ==
  ("H" :> HEARTS) @@ ("S" :> SPADES) @@ ("D" :> DIAMONDS) @@ ("C" :> CLUBS)

value_map ==
  ("A" :> ACE) @@ ("2" :> 2) @@ ("3" :> 3) @@ ("4" :> 4) @@ ("5" :> 5)
    @@ ("6" :> 6) @@ ("7" :> 7) @@ ("8" :> 8) @@ ("9" :> 9) @@ ("T" :> TEN)
    @@ ("J" :> JACK) @@ ("Q" :> QUEEN) @@ ("K" :> KING)

NoCard == Card(0, 0)

(* outcome of a classmethod that builds a card: the card, or the exception *)
Built(card) == [error |-> "none", card |-> card]

Raised(error) == [error |-> error, card |-> NoCard]

(* Card.from_str trying suit then value only: no second try in the other  *)
(* order                                                                   *)
from_str_one_order(s) ==
  IF Len(s) < 2 THEN Raised("IndexError")
  ELSE IF s[1] \in DOMAIN suit_map /\ s[2] \in DOMAIN value_map
       THEN Built(Card(suit_map[s[1]], value_map[s[2]]))
       ELSE Raised("ValueError")

(* Card.from_str: suit then value, on KeyError value then suit, on a       *)
(* second KeyError ValueError; an index past the end is an IndexError that *)
(* no handler catches; characters after the second are never read          *)
from_str(s) ==
  IF Len(s) < 2 THEN Raised("IndexError")
  ELSE IF s[1] \in DOMAIN suit_map /\ s[2] \in DOMAIN value_map
       THEN Built(Card(suit_map[s[1]], value_map[s[2]]))
       ELSE IF s[2] \in DOMAIN suit_map /\ s[1] \in DOMAIN value_map
            THEN Built(Card(suit_map[s[2]], value_map[s[1]]))
            ELSE Raised("ValueError")

(* Card.from_raw: Card.Suit(suit) and Card.Value(value) raise ValueError   *)
(* for an integer that is no member value                                  *)
from_raw(suit, value) ==
  IF suit \in Suit /\ value \in Value
  THEN Built(Card(suit, value))
  ELSE Raised("ValueError")

(* Card defines neither __eq__ nor __hash__: both are those of object,     *)
(* a == b is `a is b` and hash(a) derives from the identity                *)
eq(a, b) == a = b

hash(a) == a

(* Hand enum: member name -> member value                                  *)
Hand ==
  [HIGH_CARD |-> 0, PAIR |-> 1, TWO_PAIR |-> 2, THREE_OF_A_KIND |-> 3,
   STRAIGHT |-> 4, FLUSH |-> 5, FULL_HOUSE |-> 6, FOUR_OF_A_KIND |-> 7,
   STRAIGHT_FLUSH |-> 8, ROYAL_FLUSH |-> 9]

HandNames == DOMAIN Hand

----------------------------------------------------------------------------
(* Python list helpers                                                     *)

Reverse(s) == [k \in 1..Len(s) |-> s[Len(s) + 1 - k]]

(* s[len(s) - n:] for len(s) >= n, and s[-n:]                              *)
LastN(s, n) == IF Len(s) <= n THEN s ELSE SubSeq(s, Len(s) - n + 1, Len(s))

Key(card, by) == IF by = "value" THEN card.value ELSE card.suit

(* sorted(s, key=...): stable, equal keys keep their input order           *)
SortPos(s, by, i) ==
  1 + Cardinality({j \in 1..Len(s) :
        \/ Key(s[j], by) < Key(s[i], by)
        \/ Key(s[j], by) = Key(s[i], by) /\ j < i})

Sorted(s, by) ==
  [k \in 1..Len(s) |-> s[CHOOSE i \in 1..Len(s) : SortPos(s, by, i) = k]]

(* max(groups, key=len): the first group of greatest length               *)
MaxByLen(groups) ==
  groups[CHOOSE i \in 1..Len(groups) :
           /\ \A j \in 1..Len(groups) : Len(groups[j]) <= Len(groups[i])
           /\ \A j \in 1..(i - 1) : Len(groups[j]) < Len(groups[i])]

(* the elements of s at the indices of idx, in list order                  *)
RECURSIVE Pick(_, _, _)
Pick(s, idx, k) ==
  IF k > Len(s) THEN <<>>
  ELSE (IF k \in idx THEN <<s[k]>> ELSE <<>>) \o Pick(s, idx, k + 1)

----------------------------------------------------------------------------
(* Grouping helpers (hands.py)                                             *)

(* the test of the inner loop, at list index i (1-based) and offset j      *)
Match(s, i, j, kind) ==
  CASE kind = "suit" -> s[i].suit = s[i + j].suit
    [] kind = "value" -> s[i].value = s[i + j].value
    [] kind = "consecutive" -> s[i].value + j = s[i + j].value

MatchOffsets(s, i, kind) == {j \in 1..(Len(s) - i) : Match(s, i, j, kind)}

(* the outer loop `for i in range(len(cards) - 1)` with its skip counter   *)
RECURSIVE ScanGroups(_, _, _, _, _)
ScanGroups(s, i, skip, groups, kind) ==
  IF i > Len(s) - 1 THEN groups
  ELSE IF skip > 0 THEN ScanGroups(s, i + 1, skip - 1, groups, kind)
  ELSE LET offs == MatchOffsets(s, i, kind)
           group == <<s[i]>> \o Pick(s, {i + j : j \in offs}, 1)
       IN ScanGroups(s, i + 1, Cardinality(offs),
                     IF Len(group) > 1 THEN Append(groups, group) ELSE groups,
                     kind)

(* `cards = sorted(cards, key=...)` done in place, as cards.sort(key=...)   *)
left_by_sort(s, by) == Sorted(s, by)

(* the list a helper was given, after the helper: `cards = sorted(cards,   *)
(* key=...)` builds a new list and rebinds the local name, every later     *)
(* step works on the new list, the list passed in keeps its cards and      *)
(* their order                                                             *)
left_by_sorted(s, by) == s

get_same_suit(s) == Reverse(ScanGroups(Sorted(s, "suit"), 1, 0, <<>>, "suit"))

get_consecutive_values(s) ==
  Reverse(ScanGroups(Sorted(s, "value"), 1, 0, <<>>, "consecutive"))

(* get_same_values with its outer loop starting at the second card        *)
get_same_values_from_second(s) ==
  ScanGroups(Sorted(s, "value"), 2, 0, <<>>, "value")

get_same_values(s) == ScanGroups(Sorted(s, "value"), 1, 0, <<>>, "value")

----------------------------------------------------------------------------
(* Detector outcomes: a Hand member with the cards handed to with_cards,   *)
(* None, or the ValueError raised by max() on an empty list                *)

Found(name, cs) == [hand |-> name, cards |-> cs]

None == [hand |-> "None", cards |-> <<>>]

ValueError == [hand |-> "ValueError", cards |-> <<>>]

royal_flush_values == {ACE, KING, QUEEN, JACK, TEN}

(* suit_dict[suit] of get_royal_flush for one run                          *)
suit_count(run, suit) ==
  Cardinality({k \in 1..Len(run) :
                 run[k].value \in royal_flush_values /\ run[k].suit = suit})

RECURSIVE royal_flush_scan(_, _)
royal_flush_scan(consecutive, n) ==
  IF n > Len(consecutive) THEN None
  ELSE LET run == consecutive[n]
           values == {run[k].value : k \in 1..Len(run)}
           full == {k \in 1..Len(run) :
                      /\ run[k].value \in royal_flush_values
                      /\ suit_count(run, run[k].suit) >= 5}
       IN IF royal_flush_values \subseteq values /\ full # {}
          THEN LET first == CHOOSE k \in full : \A m \in full : k <= m
                   suit == run[first].suit
               IN Found("ROYAL_FLUSH",
                        Pick(run, {k \in 1..Len(run) :
                                     /\ run[k].value \in royal_flush_values
                                     /\ run[k].suit = suit}, 1))
          ELSE royal_flush_scan(consecutive, n + 1)

get_royal_flush(consecutive) == royal_flush_scan(consecutive, 1)

RECURSIVE straight_flush_scan(_, _)
straight_flush_scan(consecutive, n) ==
  IF n > Len(consecutive) THEN None
  ELSE LET run == consecutive[n]
           same == get_same_suit(run)
       IN IF same = <<>> THEN ValueError
          ELSE LET common_suit == MaxByLen(same)
               IN IF Len(run) >= 5 /\ Len(common_suit) >= 5
                  THEN Found("STRAIGHT_FLUSH",
                             LastN(Sorted(common_suit, "value"), 5))
                  ELSE straight_flush_scan(consecutive, n + 1)

get_straight_flush(consecutive) == straight_flush_scan(consecutive, 1)

(* get_flush without the [-5:] slice                                       *)
get_flush_whole_suit(cs) ==
  LET same == get_same_suit(cs)
  IN IF same = <<>> THEN ValueError
     ELSE LET common_suit == MaxByLen(same)
          IN IF Len(common_suit) >= 5
             THEN Found("FLUSH", Sorted(common_suit, "value"))
             ELSE None

(* get_flush without the sort by value                                     *)
get_flush_unsorted(cs) ==
  LET same == get_same_suit(cs)
  IN IF same = <<>> THEN ValueError
     ELSE LET common_suit == MaxByLen(same)
          IN IF Len(common_suit) >= 5
             THEN Found("FLUSH", LastN(common_suit, 5))
             ELSE None

get_flush(cs) ==
  LET same == get_same_suit(cs)
  IN IF same = <<>> THEN ValueError
     ELSE LET common_suit == MaxByLen(same)
          IN IF Len(common_suit) >= 5
             THEN Found("FLUSH", LastN(Sorted(common_suit, "value"), 5))
             ELSE None

(* `for cards in groups: if len(cards) >= n: return member(cards[-n:])`    *)
RECURSIVE first_of_size(_, _, _, _)
first_of_size(groups, n, name, k) ==
  IF k > Len(groups) THEN None
  ELSE IF Len(groups[k]) >= n THEN Found(name, LastN(groups[k], n))
  ELSE first_of_size(groups, n, name, k + 1)

get_straight(consecutive) == first_of_size(consecutive, 5, "STRAIGHT", 1)

get_four_of_a_kind(same) == first_of_size(same, 4, "FOUR_OF_A_KIND", 1)

get_three_of_a_kind(same) == first_of_size(same, 3, "THREE_OF_A_KIND", 1)

get_pair(same) == first_of_size(same, 2, "PAIR", 1)

(* Python truth of an index variable: None (here -1) and 0 are both false  *)
Truthy(index) == index > 0

(* the loop of get_full_house; i, three and pair are 0-based list indices  *)
RECURSIVE full_house_scan(_, _, _, _)
full_house_scan(same, i, three, pair) ==
  IF i > Len(same) - 1 THEN None
  ELSE LET size == Len(same[i + 1])
           three_of_a_kind_index ==
             IF size >= 3 /\ ~Truthy(three) THEN i ELSE three
           pair_index ==
             IF size < 3 /\ size >= 2 /\ ~Truthy(pair) THEN i ELSE pair
       IN IF Truthy(three_of_a_kind_index) /\ Truthy(pair_index)
          THEN Found("FULL_HOUSE",
                     LastN(same[three_of_a_kind_index + 1], 3)
                       \o LastN(same[pair_index + 1], 2))
          ELSE full_house_scan(same, i + 1, three_of_a_kind_index, pair_index)

get_full_house(same) == full_house_scan(same, 0, -1, -1)

(* get_two_pair taking pair_indices[0] for both pairs                      *)
get_two_pair_same_index(same) ==
  LET pair_indices == Pick([k \in 1..Len(same) |-> k],
                           {k \in 1..Len(same) : Len(same[k]) >= 2}, 1)
  IN IF Len(pair_indices) >= 2
     THEN Found("TWO_PAIR",
                LastN(same[pair_indices[1]], 2)
                  \o LastN(same[pair_indices[1]], 2))
     ELSE None

get_two_pair(same) ==
  LET pair_indices == Pick([k \in 1..Len(same) |-> k],
                           {k \in 1..Len(same) : Len(same[k]) >= 2}, 1)
  IN IF Len(pair_indices) >= 2
     THEN Found("TWO_PAIR",
                LastN(same[pair_indices[1]], 2)
                  \o LastN(same[pair_indices[2]], 2))
     ELSE None

(* max(cards, key=value): the first card of greatest value                 *)
get_high_card(cs) ==
  IF cs = <<>> THEN ValueError
  ELSE Found("HIGH_CARD",
             <<cs[CHOOSE i \in 1..Len(cs) :
                    /\ \A j \in 1..Len(cs) : cs[j].value <= cs[i].value
                    /\ \A j \in 1..(i - 1) : cs[j].value < cs[i].value]>>)

(* the chain of `if isinstance(x, Hand): return x`: anything but None     *)
(* (a member, or the ValueError passing through) ends the call            *)
Ends(outcome) == outcome.hand # "None"

get_best_hand(cs) ==
  LET consecutive == get_consecutive_values(cs)
      same == get_same_values(cs)
      royal_flush == get_royal_flush(consecutive)
      straight_flush == get_straight_flush(consecutive)
      four_of_a_kind == get_four_of_a_kind(same)
      full_house == get_full_house(same)
      flush == get_flush(cs)
      straight == get_straight(consecutive)
      three_of_a_kind == get_three_of_a_kind(same)
      two_pair == get_two_pair(same)
      pair == get_pair(same)
  IN IF Ends(royal_flush) THEN royal_flush
     ELSE IF Ends(straight_flush) THEN straight_flush
     ELSE IF Ends(four_of_a_kind) THEN four_of_a_kind
     ELSE IF Ends(full_house) THEN full_house
     ELSE IF Ends(flush) THEN flush
     ELSE IF Ends(straight) THEN straight
     ELSE IF Ends(three_of_a_kind) THEN three_of_a_kind
     ELSE IF Ends(two_pair) THEN two_pair
     ELSE IF Ends(pair) THEN pair
     ELSE get_high_card(cs)

(* the caller's list after get_best_hand(cards): get_consecutive_values,   *)
(* get_same_values and (inside get_flush) get_same_suit are handed the     *)
(* caller's list itself; the detectors get the groups, slices of groups    *)
(* and sorted copies, and every result list is a new list                  *)
left_by_get_best_hand(cs) ==
  left_by_sorted(left_by_sorted(left_by_sorted(cs, "value"), "value"), "suit")

----------------------------------------------------------------------------
(* The betting bots (conbot.py, smabot.py).  A hole or community card is a *)
(* two-character string, suit then rank: card[0] is c[1], card[1] is c[2]. *)
(* Rates (win rate, hand strength, random draws) are integers in points,   *)
(* one point being 1/10000; a rate times a position weight (in tenths) is  *)
(* in tenths of a point.  Comparisons with fractions are cross-multiplied. *)

Point == 10000

Min(a, b) == IF a <= b THEN a ELSE b

Max(a, b) == IF a >= b THEN a ELSE b

(* dict.get(key, default) on a dict held as a function                     *)
Get(dict, key, default) == IF key \in DOMAIN dict THEN dict[key] ELSE default

CARD_RANKS ==
  ("2" :> 2) @@ ("3" :> 3) @@ ("4" :> 4) @@ ("5" :> 5) @@ ("6" :> 6)
    @@ ("7" :> 7) @@ ("8" :> 8) @@ ("9" :> 9) @@ ("T" :> 10) @@ ("J" :> 11)
    @@ ("Q" :> 12) @@ ("K" :> 13) @@ ("A" :> 14)

HighRanks == {"A", "K", "Q", "J", "T"}

(* position_weights of each class, in tenths                               *)
position_weights ==
  [ConservativeBot |-> [early |-> 8, middle |-> 10, late |-> 12, dealer |-> 13],
   SmartBot |-> [early |-> 8, middle |-> 10, late |-> 13, dealer |-> 14]]

Bots == DOMAIN position_weights

(* the 0-based list index of the first seat of a uuid, -1 when there is    *)
(* none: next((i for i, p in enumerate(seats) if ...), -1)                 *)
seat_index(seats, uuid) ==
  IF \E k \in DOMAIN seats : seats[k].uuid = uuid
  THEN (CHOOSE k \in DOMAIN seats :
          /\ seats[k].uuid = uuid
          /\ \A m \in 1..(k - 1) : seats[m].uuid # uuid) - 1
  ELSE -1

active_players(seats) ==
  Cardinality({k \in DOMAIN seats : seats[k].state = "participating"})

(* _get_preflop_position; dealer_btn is a 0-based list index; any          *)
(* exception of the body (a dealer_btn past the list) leaves 'early'       *)
get_preflop_position(round_state, uuid) ==
  IF round_state.dealer_btn + 1 \notin DOMAIN round_state.seats THEN "early"
  ELSE IF active_players(round_state.seats) <= 3
  THEN IF round_state.seats[round_state.dealer_btn + 1].uuid = uuid
       THEN "late" ELSE "early"
  ELSE LET n == active_players(round_state.seats)
           positions_from_dealer ==
             (seat_index(round_state.seats, uuid) - round_state.dealer_btn) % n
       IN IF positions_from_dealer = 0 THEN "dealer"
          ELSE IF 3 * positions_from_dealer > 2 * n THEN "late"
          ELSE IF 3 * positions_from_dealer > n THEN "middle"
          ELSE "early"

(* lines 48-51 / 62-65: the seat of self.uuid, when the list has one,      *)
(* overwrites committed_amount with stack_history[street], 0 when the seat *)
(* has no such entry                                                       *)
invested(self, round_state) ==
  IF seat_index(round_state.seats, self.uuid) >= 0
  THEN [self EXCEPT !.committed_amount =
          Get(round_state.seats[seat_index(round_state.seats, self.uuid) + 1]
                .stack_history, round_state.street, 0)]
  ELSE self

(* what declare_action gives back: the action, the amount, and the bot     *)
(* object as the call leaves it                                            *)
Reply(action, amount, self) == [action |-> action, amount |-> amount, self |-> self]

Raising(self) == [self EXCEPT !.my_raise_this_round = TRUE]

(* call_amount / (pot + call_amount) if pot > 0 and call_amount > 0 else 0 *)
(* is kept as the pair of its numerator and denominator                    *)
pot_odds(pot, call_amount) ==
  IF pot > 0 /\ call_amount > 0
  THEN <<call_amount, pot + call_amount>> ELSE <<0, 1>>

(* win_rate > pot_odds - less, win_rate in tenths of a point, less in      *)
(* points                                                                  *)
Beats(win_rate, odds, less) ==
  win_rate * odds[2] > 10 * Point * odds[1] - 10 * less * odds[2]

(* committed_amount / pot > 0.2, the ratio being 0 for an empty pot        *)
Committed(self, pot) == pot > 0 /\ 5 * self.committed_amount > pot

----------------------------------------------------------------------------
(* ConservativeBot                                                         *)

con_premium_hand(hole_card) ==
  LET ranks == <<hole_card[1][2], hole_card[2][2]>>
      suits == <<hole_card[1][1], hole_card[2][1]>>
      is_pair == ranks[1] = ranks[2]
      is_suited == suits[1] = suits[2]
  IN \/ is_pair /\ ranks[1] \in HighRanks
     \/ is_suited /\ ranks[1] \in HighRanks /\ ranks[2] \in HighRanks
     \/ /\ "A" \in {ranks[1], ranks[2]}
        /\ \E k \in 1..2 : ranks[k] \in (HighRanks \ {"A"})

(* _handle_preflop; int(min(min * 1.3, max)) is the lesser of              *)
(* floor(13 * min / 10) and max                                            *)
con_handle_preflop(self, va, hole_card, my_pos, call_amount, pot) ==
  IF con_premium_hand(hole_card)
  THEN IF va.min # -1
       THEN Reply("raise", Min((13 * va.min) \div 10, va.max), Raising(self))
       ELSE Reply("call", call_amount, self)
  ELSE IF my_pos \in {"late", "dealer"} THEN Reply("call", call_amount, self)
  ELSE IF 10 * self.committed_amount <= pot THEN Reply("fold", 0, self)
  ELSE Reply("call", call_amount, self)

(* _handle_postflop; estimate is what estimate_hole_card_win_rate gave, in *)
(* points, position_value in tenths                                        *)
con_handle_postflop(self, va, position_value, pot, call_amount, estimate) ==
  LET placed == estimate * position_value
      win_rate == IF Committed(self, pot) THEN placed + 2 * Point ELSE placed
      sticky == self.my_raise_this_round \/ 100 * self.committed_amount > 15 * pot
  IN IF self.my_raise_this_round /\ placed > 3 * Point
     THEN Reply("call", call_amount, self)
     ELSE IF win_rate > 7 * Point
     THEN IF va.min # -1
          THEN Reply("raise", Max(Min(pot \div 3, va.max), va.min), Raising(self))
          ELSE Reply("call", call_amount, self)
     ELSE IF win_rate > 5 * Point THEN Reply("call", call_amount, self)
     ELSE IF Beats(win_rate, pot_odds(pot, call_amount),
                   IF sticky THEN Point \div 10 ELSE 0)
     THEN Reply("call", call_amount, self)
     ELSE IF 100 * self.committed_amount > 25 * pot
     THEN Reply("call", call_amount, self)
     ELSE Reply("fold", 0, self)

(* ConservativeBot.declare_action; va is valid_actions after line 39 has   *)
(* halved its maximum raise                                                *)
con_declare_action(self, va, hole_card, round_state, chance) ==
  IF va.call = 0 THEN Reply("call", 0, self)
  ELSE LET my_pos == get_preflop_position(round_state, self.uuid)
           placed == invested(self, round_state)
       IN IF round_state.street = "preflop"
          THEN con_handle_preflop(placed, va, hole_card, my_pos, va.call,
                                  round_state.pot)
          ELSE con_handle_postflop(placed, va,
                                   position_weights.ConservativeBot[my_pos],
                                   round_state.pot, va.call, chance.estimate)

----------------------------------------------------------------------------
(* SmartBot                                                                *)

(* _hand_strength, in points; rank_values is sorted highest first          *)
hand_strength(hole_card) ==
  IF Len(hole_card) # 2 THEN 0
  ELSE LET ranks == <<hole_card[1][2], hole_card[2][2]>>
           suits == <<hole_card[1][1], hole_card[2][1]>>
           value == [k \in 1..2 |-> Get(CARD_RANKS, ranks[k], 0)]
           rank_values == <<Max(value[1], value[2]), Min(value[1], value[2])>>
           is_pair == ranks[1] = ranks[2]
           is_suited == suits[1] = suits[2]
           broadway == value[1] >= 10 /\ value[2] >= 10
           connected == rank_values[1] - rank_values[2] = 1
           ace == "A" \in {ranks[1], ranks[2]}
           kicker == IF ranks[1] = "A" THEN rank_values[2] ELSE rank_values[1]
       IN IF is_pair
          THEN IF value[1] >= 10
               THEN 9500 - (14 - value[1]) * 500
               ELSE 5000 + value[1] * 300
          ELSE IF is_suited /\ broadway THEN 8500 - (14 - rank_values[1]) * 300
          ELSE IF is_suited /\ connected THEN 6000 + rank_values[1] * 100
          ELSE IF is_suited /\ ace THEN 6500 + kicker * 100
          ELSE IF broadway THEN 7000 - (14 - rank_values[1]) * 300
          ELSE IF ace
          THEN IF kicker >= 10
               THEN 6500 - (14 - kicker) * 200
               ELSE 4000 + kicker * 100
          ELSE IF connected THEN 4000 + rank_values[1] * 100
          ELSE 2000 + rank_values[1] * 100

(* the characters of card strings in string (code point) order            *)
Collation ==
  <<"2", "3", "4", "5", "6", "7", "8", "9", "A", "C", "D", "H", "J", "K", "Q",
    "S", "T">>

CharIndex(ch) == CHOOSE k \in DOMAIN Collation : Collation[k] = ch

(* ''.join(sorted(hole_card)): the two cards in string order               *)
Before(c, d) ==
  \/ CharIndex(c[1]) < CharIndex(d[1])
  \/ c[1] = d[1] /\ CharIndex(c[2]) <= CharIndex(d[2])

hole_key(hole_card) ==
  IF Before(hole_card[1], hole_card[2])
  THEN hole_card[1] \o hole_card[2]
  ELSE hole_card[2] \o hole_card[1]

(* the cache lookup of _handle_preflop and _is_premium_hand: the cached    *)
(* strength of the key, else the strength computed and stored              *)
cached_strength(self, hole_card) ==
  Get(self.hand_strength_cache, hole_key(hole_card), hand_strength(hole_card))

Caching(self, hole_card) ==
  [self EXCEPT !.hand_strength_cache =
     (hole_key(hole_card) :> cached_strength(self, hole_card)) @@ @]

(* _handle_preflop; chance.roll is the value of random.random(), in points *)
sma_handle_preflop(self, va, hole_card, my_pos, call_amount, pot, chance) ==
  LET hand == cached_strength(self, hole_card)
      kept == Caching(self, hole_card)
      adjusted_strength == hand * position_weights.SmartBot[my_pos]
      premium_hand == hand > 7000
      slight == pot <= 0 \/ 10 * self.committed_amount <= pot
      raise_factor == 13000 + (hand * 7) \div 10
  IN IF premium_hand
     THEN IF va.min # -1
          THEN Reply("raise", Min((va.min * raise_factor) \div Point, va.max),
                     Raising(kept))
          ELSE Reply("call", call_amount, kept)
     ELSE IF /\ my_pos \in {"late", "dealer"}
             /\ adjusted_strength > 5 * Point
             /\ va.min # -1
             /\ 100 * chance.roll < 3 * adjusted_strength
     THEN Reply("raise", va.min, Raising(kept))
     ELSE IF /\ my_pos \in {"late", "dealer"}
             /\ (adjusted_strength > 4 * Point \/ call_amount = 0)
     THEN Reply("call", call_amount, kept)
     ELSE IF \/ adjusted_strength > 6 * Point
             \/ adjusted_strength > 5 * Point /\ call_amount = 0
     THEN Reply("call", call_amount, kept)
     ELSE IF slight /\ 2 * adjusted_strength < 9 * Point
     THEN Reply("fold", 0, kept)
     ELSE IF \/ call_amount = 0
             \/ Beats(adjusted_strength,
                      IF call_amount > 0
                      THEN <<call_amount, pot + call_amount>> ELSE <<0, 1>>, 0)
     THEN Reply("call", call_amount, kept)
     ELSE Reply("fold", 0, kept)

Suited(all_cards, suit) == {k \in DOMAIN all_cards : all_cards[k][1] = suit}

(* _has_nuts: five or more cards of the most common suit holding the five  *)
(* high ranks (only one suit of at most seven cards can hold five)         *)
has_nuts(hole_card, community_card) ==
  LET all_cards == hole_card \o community_card
  IN /\ Len(all_cards) >= 5
     /\ \E suit \in {all_cards[k][1] : k \in DOMAIN all_cards} :
          /\ \A other \in {all_cards[k][1] : k \in DOMAIN all_cards} :
               Cardinality(Suited(all_cards, other))
                 <= Cardinality(Suited(all_cards, suit))
          /\ Cardinality(Suited(all_cards, suit)) >= 5
          /\ HighRanks \subseteq {all_cards[k][2] : k \in Suited(all_cards, suit)}

(* _has_drawing_hand: four cards of a suit, or four neighbours of the      *)
(* sorted rank list that are four different ranks spanning three           *)
has_drawing_hand(hole_card, community_card, street) ==
  LET all_cards == hole_card \o community_card
      ranks == Sorted([k \in DOMAIN all_cards |->
                         Card(0, Get(CARD_RANKS, all_cards[k][2], 0))], "value")
  IN /\ street # "river"
     /\ Len(community_card) >= 3
     /\ \/ \E suit \in {all_cards[k][1] : k \in DOMAIN all_cards} :
             Cardinality(Suited(all_cards, suit)) = 4
        \/ \E i \in 1..(Len(ranks) - 3) :
             /\ ranks[i + 3].value - ranks[i].value = 3
             /\ Cardinality({ranks[i + m].value : m \in 0..3}) = 4

(* _estimate_win_rate: 0.95 with the nuts on a board of three or more,     *)
(* else what estimate_hole_card_win_rate gave, now or when lru_cache first *)
(* kept it for these arguments                                             *)
estimate_win_rate(hole_card, community_card, chance) ==
  IF Len(community_card) >= 3 /\ has_nuts(hole_card, community_card)
  THEN 9500 ELSE chance.estimate

(* _handle_postflop with _should_auto_call, _adjust_win_rate,              *)
(* _make_decision and _handle_weak_hand; win rates in tenths of a point    *)
sma_handle_postflop(self, va, hole_card, community_card, position_value, street, pot, call_amount, chance) ==
  LET placed == estimate_win_rate(hole_card, community_card, chance)
                  * position_value
      staged == IF street = "river" /\ placed > 8 * Point THEN placed + Point
                ELSE IF street = "turn" /\ placed > 7 * Point
                THEN placed + Point \div 2
                ELSE placed
      stuck == IF Committed(self, pot) THEN staged + 2 * Point ELSE staged
      win_rate ==
        IF /\ has_drawing_hand(hole_card, community_card, street)
           /\ street \in {"flop", "turn"}
        THEN stuck + Point ELSE stuck
      raise_amount ==
        IF street = "flop" THEN (pot * 5) \div 10 ELSE (pot * 75) \div 100
      sticky == self.my_raise_this_round \/ 100 * self.committed_amount > 15 * pot
  IN IF self.my_raise_this_round /\ staged > 3 * Point
     THEN Reply("call", call_amount, self)
     ELSE IF win_rate > 8 * Point
     THEN IF va.min # -1
          THEN Reply("raise", Max(Min(raise_amount, va.max), va.min),
                     Raising(self))
          ELSE Reply("call", va.call, self)
     ELSE IF win_rate > 6 * Point
     THEN IF va.min # -1
          THEN Reply("raise", Max(Min(pot \div 3, va.max), va.min), Raising(self))
          ELSE Reply("call", va.call, self)
     ELSE IF win_rate > 5 * Point THEN Reply("call", va.call, self)
     ELSE IF Beats(win_rate, pot_odds(pot, call_amount),
                   IF sticky THEN Point \div 10 ELSE 0)
     THEN Reply("call", va.call, self)
     ELSE IF 100 * self.committed_amount > 25 * pot
     THEN Reply("call", va.call, self)
     ELSE Reply("fold", 0, self)

(* SmartBot.declare_action; va is valid_actions after lines 46-47 have     *)
(* lowered its maximum raise                                               *)
sma_declare_action(self, va, hole_card, round_state, chance) ==
  IF va.call = 0
  THEN IF round_state.street # "preflop" /\ chance.roll < 2000
       THEN IF Len(hole_card) = 2
            THEN IF cached_strength(self, hole_card) > 7000 /\ va.min # -1
                 THEN Reply("raise", va.min, Caching(self, hole_card))
                 ELSE Reply("call", 0, Caching(self, hole_card))
            ELSE Reply("call", 0, self)
       ELSE Reply("call", 0, self)
  ELSE LET my_pos == get_preflop_position(round_state, self.uuid)
           placed == invested(self, round_state)
       IN IF round_state.street = "preflop"
          THEN sma_handle_preflop(placed, va, hole_card, my_pos, va.call,
                                  round_state.pot, chance)
          ELSE sma_handle_postflop(placed, va, hole_card,
                                   round_state.community_card,
                                   position_weights.SmartBot[my_pos],
                                   round_state.street, round_state.pot,
                                   va.call, chance)

(* valid_actions[2]['amount']['max'] as each class rewrites it in the      *)
(* caller's dict before anything else (conbot.py:39, smabot.py:46-47)      *)
lowered_max(cls, max, pot) ==
  IF cls = "ConservativeBot" THEN max \div 2
  ELSE Min(max, max \div 2 + pot \div 3)

(* declare_action(valid_actions, hole_card, round_state) of either class   *)
declare_action(cls, self, args, chance) ==
  LET va == [call |-> args.valid_actions.call,
             min |-> args.valid_actions.min,
             max |-> lowered_max(cls, args.valid_actions.max,
                                 args.round_state.pot)]
  IN IF cls = "ConservativeBot"
     THEN con_declare_action(self, va, args.hole_card, args.round_state, chance)
     ELSE sma_declare_action(self, va, args.hole_card, args.round_state, chance)

----------------------------------------------------------------------------
(* What the engine passes to the bots                                      *)

MaxRaise == 3
MaxPot == 2
MaxHeld == 2
MaxCommitted == 3
MaxAmount == 2
MaxHistory == 1

Streets == {"preflop", "flop", "turn", "river"}

(* stack_history of a seat: none (the seats of the engine have no such     *)
(* key), or an amount for every street                                     *)
NoHistory == <<>>

Histories == {NoHistory, [street \in Streets |-> 1]}

Seat(uuid, stack_history) ==
  [uuid |-> uuid, state |-> "participating", stack_history |-> stack_history]

(* the bot sits last: game_info['seats'][player_num - 1] is its seat       *)
TwoSeats(h) == <<Seat("other", NoHistory), Seat("me", h)>>

FiveSeats(h) ==
  <<Seat("p1", NoHistory), Seat("p2", NoHistory), Seat("p3", NoHistory),
    Seat("other", NoHistory), Seat("me", h)>>

Table(seats, dealer_btn) == [seats |-> seats, dealer_btn |-> dealer_btn]

(* early and late at a table of two, middle and dealer at a table of five  *)
Tables ==
  UNION {{Table(TwoSeats(h), 0), Table(TwoSeats(h), 1),
          Table(FiveSeats(h), 2), Table(FiveSeats(h), 4)} : h \in Histories}

(* valid_actions: the call amount and the raise limits, -1 and -1 when the *)
(* bot may not raise                                                       *)
Limits ==
  {<<-1, -1>>} \cup {mm \in (1..MaxRaise) \X (1..MaxRaise) : mm[1] <= mm[2]}

Offers(amounts) ==
  {[call |-> c, min |-> mm[1], max |-> mm[2]] : c \in amounts, mm \in Limits}

Pots == {3 * k * k : k \in 0..MaxPot}

Holes ==
  { << <<"H", "A">>, <<"H", "K">> >>,
    << <<"H", "9">>, <<"S", "8">> >>,
    << <<"H", "7">>, <<"S", "2">> >> }

(* a street after the flop with hole cards and a board: the five high      *)
(* hearts, four hearts, and two boards with nothing                        *)
Scenes ==
  { [street |-> "flop", hole_card |-> << <<"H", "A">>, <<"H", "K">> >>,
     community_card |-> << <<"H", "Q">>, <<"H", "J">>, <<"H", "T">> >>],
    [street |-> "flop", hole_card |-> << <<"H", "A">>, <<"H", "K">> >>,
     community_card |-> << <<"H", "2">>, <<"H", "7">>, <<"S", "9">> >>],
    [street |-> "turn", hole_card |-> << <<"H", "7">>, <<"S", "2">> >>,
     community_card |->
       << <<"D", "9">>, <<"C", "K">>, <<"S", "4">>, <<"D", "J">> >>],
    [street |-> "river", hole_card |-> << <<"H", "7">>, <<"S", "2">> >>,
     community_card |->
       << <<"D", "9">>, <<"C", "K">>, <<"S", "4">>, <<"D", "J">>,
          <<"C", "3">> >>] }

(* estimate_hole_card_win_rate and random.random(), in points              *)
Estimates == {2000, 6500, 9000}

Rolls == {500, 5000}

Chance(estimate, roll) == [estimate |-> estimate, roll |-> roll]

Ask(valid_actions, hole_card, street, pot, community_card, table, chance) ==
  [valid_actions |-> valid_actions,
   hole_card |-> hole_card,
   round_state |-> [street |-> street, pot |-> pot,
                    community_card |-> community_card,
                    seats |-> table.seats, dealer_btn |-> table.dealer_btn],
   chance |-> chance]

PreflopAsks(offers, holes, pots, tables, rolls) ==
  {Ask(va, hole, "preflop", pot, <<>>, table, Chance(0, roll)) :
     va \in offers, hole \in holes, pot \in pots, table \in tables,
     roll \in rolls}

PostflopAsks(offers, scenes, pots, tables, estimates, rolls) ==
  {Ask(va, scene.hole_card, scene.street, pot, scene.community_card, table,
       Chance(estimate, roll)) :
     va \in offers, scene \in scenes, pot \in pots, table \in tables,
     estimate \in estimates, roll \in rolls}

Asks ==
  PreflopAsks(Offers({0, 2}), Holes, Pots, Tables, Rolls)
    \cup PostflopAsks(Offers({0, 2}), Scenes, Pots, Tables, Estimates, Rolls)

(* the asks of the callback sequences: one offer to call 2 or raise 2 to 3 *)
(* into a pot of 3 at the table of two, before and after the flop          *)
FewAsks ==
  PreflopAsks({[call |-> 2, min |-> 2, max |-> 3]}, Holes, {3},
              {Table(TwoSeats(NoHistory), 1)}, {500})
    \cup PostflopAsks({[call |-> 2, min |-> 2, max |-> 3]},
                      {scene \in Scenes : scene.street = "flop"}, {3},
                      {Table(TwoSeats(NoHistory), 1)}, {6500}, {500})

GameInfos ==
  {[player_num |-> Len(seats), seats |-> seats] :
     seats \in {TwoSeats(NoHistory), FiveSeats(NoHistory)}}

NewActions ==
  [player_uuid : {"me", "other"}, action : {"fold", "call", "raise"},
   amount : 0..MaxAmount]

----------------------------------------------------------------------------
(* The bot object and its callbacks                                        *)

(* __init__: no uuid, nothing raised, nothing committed, empty caches;     *)
(* hand_history is kept as its length                                      *)
Fresh ==
  [uuid |-> "None", my_raise_this_round |-> FALSE, committed_amount |-> 0,
   hand_strength_cache |-> <<>>, hand_history |-> 0]

NoAsk == Ask([call |-> 0, min |-> -1, max |-> -1], <<>>, "none", 0, <<>>,
             Table(<<>>, 0), Chance(0, 0))

NotDeclared ==
  [action |-> "none", amount |-> 0, min |-> -1, max |-> -1, max_left |-> -1]

NoBot ==
  /\ bot = "none"
  /\ this = Fresh
  /\ ask = NoAsk
  /\ declared = NotDeclared
  /\ in_round = FALSE
  /\ reported = 0

----------------------------------------------------------------------------
(* Inputs of the model: hands of 5 to 7 different cards                    *)

LowRanks == 6
DeepRanks == 3
MaxCalls == 2
LooseDeckSize == 8
CallDeckSize == 7
ThreadDeckSize == 10

HandSizes == 5..7

Deck(values, suits) == {Card(s, v) : s \in suits, v \in values}

(* ace to six in two suits: runs, repeated ranks inside runs, flushes      *)
LowDeck == Deck(ACE..LowRanks, {HEARTS, SPADES})

(* ace and ten to king in two suits: the royal cards                       *)
HighDeck == Deck({ACE} \cup (TEN..KING), {HEARTS, SPADES})

(* a few ranks in all four suits: pairs, trips, quads, several groups      *)
DeepValues == <<2, 9, KING, 3, 7>>

DeepDeck == Deck({DeepValues[k] : k \in 1..DeepRanks}, Suit)

(* odd ranks: seven hearts with the ace and no two adjacent ranks, and two *)
(* spades: long suits without runs                                        *)
OddDeck ==
  Deck({ACE, 3, 5, 7, 9, JACK, KING}, {HEARTS}) \cup Deck({3, 9}, {SPADES})

Hands(deck) == {S \in SUBSET deck : Cardinality(S) \in HandSizes}

CardIndex(c) == (c.value - 1) * CLUBS + c.suit

(* the cards of S as a list, lowest value first                            *)
ListOf(S) ==
  [k \in 1..Cardinality(S) |->
     CHOOSE c \in S : Cardinality({d \in S : CardIndex(d) < CardIndex(c)}) = k - 1]

Orderings(S) == {ListOf(S), Reverse(ListOf(S))}

Inputs ==
  UNION {Orderings(S) : S \in Hands(LowDeck) \cup Hands(HighDeck)
                                \cup Hands(DeepDeck) \cup Hands(OddDeck)}

(* even ranks of hearts and spades, then two threes: no runs at first      *)
PlainCards ==
  << Card(HEARTS, 2), Card(HEARTS, 4), Card(HEARTS, 6), Card(HEARTS, 8),
     Card(HEARTS, TEN), Card(SPADES, 2), Card(SPADES, 4), Card(SPADES, 6),
     Card(SPADES, 8), Card(SPADES, TEN), Card(HEARTS, 3), Card(SPADES, 3) >>

PlainDeck(n) == {PlainCards[k] : k \in 1..n}

CallInputs == {ListOf(S) : S \in Hands(PlainDeck(CallDeckSize))}

ThreadInputs == {ListOf(S) : S \in Hands(PlainDeck(ThreadDeckSize))}

SetOf(s) == {s[k] : k \in 1..Len(s)}

(* lists get_best_hand does not refuse: too short, too long, or 5 to 7     *)
(* long with one card twice                                                *)
LooseInputs ==
  {ListOf(S) : S \in {T \in SUBSET PlainDeck(LooseDeckSize) :
                        Cardinality(T) \notin HandSizes}}
    \cup UNION {{Append(ListOf(S), c) : c \in S} :
                 S \in {T \in SUBSET PlainDeck(LooseDeckSize) :
                          Cardinality(T) + 1 \in HandSizes}}

(* characters: the suit letters, the rank characters and a few others     *)
OtherChars == {"h", "1", "X"}

Chars == DOMAIN suit_map \cup DOMAIN value_map \cup OtherChars

MaxStr == 2

Strings == UNION {[1..n -> Chars] : n \in 0..MaxStr}

(* what the callers of the three constructors pass in the identity model   *)
MaxMade == 3
RawRange == 2

FewSuits == {HEARTS, SPADES}

FewValues == {ACE, 2}

FewStrings == {<<"H", "A">>, <<"A", "H">>, <<"2", "S">>, <<"S", "X">>}

----------------------------------------------------------------------------
(* State                                                                   *)

Threads == 1..2

NoCards == <<>>

Unset == [h \in HandNames |-> NoCards]

(* Hand.X.with_cards(cs) stores cs in the member X; nothing is stored      *)
(* when the call raised                                                    *)
with_cards(store, outcome) ==
  IF outcome.hand \in HandNames
  THEN [store EXCEPT ![outcome.hand] = outcome.cards]
  ELSE store

NoThreads ==
  /\ t_cards = [t \in Threads |-> NoCards]
  /\ t_pc = [t \in Threads |-> "idle"]
  /\ t_result = [t \in Threads |-> "none"]
  /\ t_seen = [t \in Threads |-> NoCards]

NoCaller ==
  /\ result = "none"
  /\ seen = NoCards
  /\ calls = 0
  /\ held = None

NotCalled == Raised("none yet")

NoCardCalls ==
  /\ card_str = <<>>
  /\ parsed = NotCalled
  /\ made = <<>>

Init ==
  /\ hand_cards = Unset
  /\ cards \in Inputs
  /\ NoCaller
  /\ NoThreads
  /\ NoCardCalls
  /\ NoBot

(* get_best_hand(cs) called and returned to a sequential caller, which     *)
(* reads result.cards at once                                              *)
Call(cs) ==
  \E outcome \in {get_best_hand(cs)} :
     /\ cards' = left_by_get_best_hand(cs)
     /\ result' = outcome.hand
     /\ hand_cards' = with_cards(hand_cards, outcome)
     /\ seen' = IF outcome.hand \in HandNames THEN outcome.cards ELSE NoCards
     /\ held' = IF held = None /\ outcome.hand \in HandNames
                THEN outcome ELSE held
     /\ calls' = calls + 1
     /\ UNCHANGED <<t_cards, t_pc, t_result, t_seen>>
     /\ UNCHANGED <<card_vars, bot_vars>>

(* the one evaluation of the hand drawn in Init                            *)
Evaluate ==
  /\ calls = 0
  /\ Call(cards)

Next == Evaluate

Spec == Init /\ [][Next]_vars

----------------------------------------------------------------------------
(* A caller that evaluates one hand after another and keeps the first      *)
(* result                                                                  *)

InitCalls ==
  /\ hand_cards = Unset
  /\ cards = NoCards
  /\ NoCaller
  /\ NoThreads
  /\ NoCardCalls
  /\ NoBot

NextCall ==
  /\ calls < MaxCalls
  /\ \E cs \in CallInputs : Call(cs)

SpecCalls == InitCalls /\ [][NextCall]_vars

----------------------------------------------------------------------------
(* One evaluation of a list that is no valid hand                          *)

InitLoose ==
  /\ hand_cards = Unset
  /\ cards \in LooseInputs
  /\ NoCaller
  /\ NoThreads
  /\ NoCardCalls
  /\ NoBot

SpecLoose == InitLoose /\ [][Next]_vars

----------------------------------------------------------------------------
(* Two threads, each evaluating its own hand; the hands share no card.     *)
(* Grouping and detection work on locals; the shared steps are the store   *)
(* of with_cards and the caller's read of result.cards after the return.   *)

InitThreads ==
  /\ hand_cards = Unset
  /\ cards = NoCards
  /\ NoCaller
  /\ t_cards \in {f \in [Threads -> ThreadInputs] :
                    SetOf(f[1]) \cap SetOf(f[2]) = {}}
  /\ t_pc = [t \in Threads |-> "start"]
  /\ t_result = [t \in Threads |-> "none"]
  /\ t_seen = [t \in Threads |-> NoCards]
  /\ NoCardCalls
  /\ NoBot

(* get_best_hand up to and including `self.cards = cards`                  *)
StoreCards(t) ==
  /\ t_pc[t] = "start"
  /\ \E outcome \in {get_best_hand(t_cards[t])} :
        /\ hand_cards' = with_cards(hand_cards, outcome)
        /\ t_result' = [t_result EXCEPT ![t] = outcome.hand]
        /\ t_pc' = [t_pc EXCEPT ![t] =
                      IF outcome.hand \in HandNames THEN "stored" ELSE "done"]
  /\ UNCHANGED <<cards, result, seen, calls, held, t_cards, t_seen>>
  /\ UNCHANGED <<card_vars, bot_vars>>

(* `return self`, and the caller reading the cards of the member it got    *)
ReadCards(t) ==
  /\ t_pc[t] = "stored"
  /\ t_seen' = [t_seen EXCEPT ![t] = hand_cards[t_result[t]]]
  /\ t_pc' = [t_pc EXCEPT ![t] = "done"]
  /\ UNCHANGED <<hand_cards, cards, result, seen, calls, held, t_cards, t_result>>
  /\ UNCHANGED <<card_vars, bot_vars>>

NextThreads == \E t \in Threads : StoreCards(t) \/ ReadCards(t)

SpecThreads == InitThreads /\ [][NextThreads]_vars

----------------------------------------------------------------------------
(* Card construction.  Every call of the class builds a new object; the    *)
(* objects built so far are kept in `made`, an object's index being its    *)
(* identity.                                                               *)

NoEvaluation ==
  /\ hand_cards = Unset
  /\ cards = NoCards
  /\ NoCaller
  /\ NoThreads

Object(card, by) == [suit |-> card.suit, value |-> card.value, by |-> by]

(* the model holds at most MaxMade objects                                 *)
Room == Len(made) < MaxMade

Keep(outcome, by) ==
  made' = IF outcome.error = "none"
          THEN Append(made, Object(outcome.card, by))
          ELSE made

(* Card.from_str(s) called and returned or raised                          *)
FromStr(s) ==
  \E outcome \in {from_str(s)} :
     /\ Room
     /\ card_str' = s
     /\ parsed' = outcome
     /\ Keep(outcome, "from_str")
     /\ UNCHANGED <<eval_vars, bot_vars>>

InitParse ==
  /\ NoEvaluation
  /\ NoBot
  /\ card_str \in Strings
  /\ parsed = NotCalled
  /\ made = <<>>

(* the one parse of the string drawn in InitParse                          *)
Parse ==
  /\ parsed = NotCalled
  /\ FromStr(card_str)

NextParse == Parse

SpecParse == InitParse /\ [][NextParse]_vars

InitCards ==
  /\ NoEvaluation
  /\ NoCardCalls
  /\ NoBot

(* Card(suit, value)                                                       *)
New(suit, value) ==
  /\ Room
  /\ Keep(Built(Card(suit, value)), "constructor")
  /\ UNCHANGED <<card_str, parsed>>
  /\ UNCHANGED <<eval_vars, bot_vars>>

(* Card.from_raw(suit, value)                                              *)
FromRaw(suit, value) ==
  /\ Room
  /\ Keep(from_raw(suit, value), "from_raw")
  /\ UNCHANGED <<card_str, parsed>>
  /\ UNCHANGED <<eval_vars, bot_vars>>

NextCards ==
  \/ \E suit \in FewSuits, value \in FewValues : New(suit, value)
  \/ \E suit \in 0..RawRange, value \in 0..RawRange : FromRaw(suit, value)
  \/ \E s \in FewStrings : FromStr(s)

SpecCards == InitCards /\ [][NextCards]_vars

----------------------------------------------------------------------------
(* The calls the engine makes on a bot.  opponent_patterns and the        *)
(* emulator are written by the callbacks and read by no decision; they     *)
(* are not part of the state.                                              *)

(* declare_action called with the arguments a; the caller gets the action  *)
(* and the amount, and finds the maximum raise of its valid_actions        *)
(* rewritten                                                               *)
DeclareAction(a) ==
  \E reply \in {declare_action(bot, this, a, a.chance)} :
     /\ ask' = a
     /\ this' = reply.self
     /\ declared' = [action |-> reply.action, amount |-> reply.amount,
                     min |-> a.valid_actions.min, max |-> a.valid_actions.max,
                     max_left |-> lowered_max(bot, a.valid_actions.max,
                                              a.round_state.pot)]
     /\ UNCHANGED <<bot, in_round, reported>>
     /\ UNCHANGED <<eval_vars, card_vars>>

(* a bot somewhere in a game, asked once                                   *)
InitDeclare ==
  /\ NoEvaluation
  /\ NoCardCalls
  /\ bot \in Bots
  /\ this \in {[Fresh EXCEPT !.uuid = uuid, !.my_raise_this_round = raised,
                             !.committed_amount = amount] :
                 uuid \in {"None", "me"}, raised \in BOOLEAN,
                 amount \in {0, MaxHeld}}
  /\ ask \in Asks
  /\ declared = NotDeclared
  /\ in_round = FALSE
  /\ reported = 0

Declare ==
  /\ declared = NotDeclared
  /\ DeclareAction(ask)

NextDeclare == Declare

SpecDeclare == InitDeclare /\ [][NextDeclare]_vars

InitBot ==
  /\ NoEvaluation
  /\ NoCardCalls
  /\ bot \in Bots
  /\ this = Fresh
  /\ ask = NoAsk
  /\ declared = NotDeclared
  /\ in_round = FALSE
  /\ reported = 0

(* receive_game_start_message: the uuid of seat player_num - 1; the        *)
(* emulator it sets up is not used by any other method                     *)
GameStart(game_info) ==
  /\ this' = [this EXCEPT !.uuid = game_info.seats[game_info.player_num].uuid]
  /\ UNCHANGED <<bot, ask, declared, in_round, reported>>
  /\ UNCHANGED <<eval_vars, card_vars>>

(* receive_round_start_message; the engine's account of the round starts   *)
RoundStart ==
  /\ this' = [this EXCEPT !.my_raise_this_round = FALSE, !.committed_amount = 0]
  /\ in_round' = TRUE
  /\ reported' = 0
  /\ UNCHANGED <<bot, ask, declared>>
  /\ UNCHANGED <<eval_vars, card_vars>>

(* receive_street_start_message                                            *)
StreetStart ==
  /\ this' = [this EXCEPT !.my_raise_this_round = FALSE]
  /\ UNCHANGED <<bot, ask, declared, in_round, reported>>
  /\ UNCHANGED <<eval_vars, card_vars>>

Own(new_action) == new_action.player_uuid = this.uuid

Paid(new_action) == new_action.action \in {"call", "raise"}

(* receive_game_update_message: an action of another player is appended to *)
(* hand_history, an own raise sets the flag, an own call or raise adds its *)
(* amount; reported is the sum of the own calls and raises the engine has  *)
(* reported in this round                                                  *)
GameUpdate(new_action) ==
  /\ IF Own(new_action)
     THEN /\ Paid(new_action) =>
               this.committed_amount + new_action.amount <= MaxCommitted
          /\ reported + new_action.amount <= MaxCommitted
          /\ this' = [this EXCEPT
                        !.my_raise_this_round =
                          IF new_action.action = "raise" THEN TRUE ELSE @,
                        !.committed_amount =
                          IF Paid(new_action) THEN @ + new_action.amount ELSE @]
          /\ reported' = IF Paid(new_action)
                         THEN reported + new_action.amount ELSE reported
     ELSE /\ this.hand_history < MaxHistory
          /\ this' = [this EXCEPT !.hand_history = @ + 1]
          /\ UNCHANGED reported
  /\ UNCHANGED <<bot, ask, declared, in_round>>
  /\ UNCHANGED <<eval_vars, card_vars>>

(* receive_round_result_message; the round of the engine's account ends    *)
RoundResult ==
  /\ this' = [this EXCEPT !.my_raise_this_round = FALSE, !.committed_amount = 0]
  /\ in_round' = FALSE
  /\ reported' = 0
  /\ UNCHANGED <<bot, ask, declared>>
  /\ UNCHANGED <<eval_vars, card_vars>>

NextBot ==
  \/ \E game_info \in GameInfos : GameStart(game_info)
  \/ RoundStart
  \/ StreetStart
  \/ \E new_action \in NewActions : GameUpdate(new_action)
  \/ \E a \in FewAsks : DeclareAction(a)
  \/ RoundResult

SpecBot == InitBot /\ [][NextBot]_vars

----------------------------------------------------------------------------
(* Properties of the evaluator                                             *)

(* rank order of the card model as specified: ace above king               *)
Rank(c) == IF c.value = ACE THEN KING + 1 ELSE c.value

Returned == calls = 1 /\ result \in HandNames

CountValue(S, v) == Cardinality({c \in S : c.value = v})

CountSuit(S, suit) == Cardinality({c \in S : c.suit = suit})

(* C1: every evaluation of a duplicate-free hand of 5 to 7 cards returns   *)
(* a Hand member with relevant cards attached; it never raises.            *)
C1_Totality == calls = 1 => result \in HandNames /\ seen # NoCards

(* the precondition of each category on a set of cards                     *)
Precondition(K, S) ==
  CASE K = "ROYAL_FLUSH" ->
         \E suit \in Suit : \A r \in TEN..(KING + 1) :
           \E c \in S : c.suit = suit /\ Rank(c) = r
    [] K = "STRAIGHT_FLUSH" ->
         \E suit \in Suit : \E r \in 2..TEN : \A k \in 0..4 :
           \E c \in S : c.suit = suit /\ Rank(c) = r + k
    [] K = "FOUR_OF_A_KIND" -> \E v \in Value : CountValue(S, v) >= 4
    [] K = "FULL_HOUSE" ->
         \E v, w \in Value :
           v # w /\ CountValue(S, v) >= 3 /\ CountValue(S, w) >= 2
    [] K = "FLUSH" -> \E suit \in Suit : CountSuit(S, suit) >= 5
    [] K = "STRAIGHT" ->
         \E r \in 2..TEN : \A k \in 0..4 : \E c \in S : Rank(c) = r + k
    [] K = "THREE_OF_A_KIND" -> \E v \in Value : CountValue(S, v) >= 3
    [] K = "TWO_PAIR" ->
         \E v, w \in Value :
           v # w /\ CountValue(S, v) >= 2 /\ CountValue(S, w) >= 2
    [] K = "PAIR" -> \E v \in Value : CountValue(S, v) >= 2
    [] K = "HIGH_CARD" -> TRUE

(* C2: when the hand satisfies the precondition of category K, the member  *)
(* returned is never weaker than K.                                        *)
C2_MonotonicPrecedence ==
  Returned =>
    \A K \in HandNames :
      Precondition(K, SetOf(cards)) => Hand[result] >= Hand[K]

(* each card exactly one above the card before it, in the numbering of     *)
(* Card.Value or with the ace above the king                               *)
StepsByOne(s) ==
  \/ \A k \in 1..(Len(s) - 1) : s[k + 1].value = s[k].value + 1
  \/ \A k \in 1..(Len(s) - 1) : Rank(s[k + 1]) = Rank(s[k]) + 1

(* C3: a returned STRAIGHT holds five cards of consecutive ranks.          *)
C3_StraightIsConsecutive ==
  calls = 1 /\ result = "STRAIGHT" => Len(seen) = 5 /\ StepsByOne(seen)

(* C4: every ordering of the same hand gives the same outcome: the same    *)
(* member with the same set of relevant cards, or a failure both times.    *)
C4_OrderIndependent ==
  calls = 1 =>
    \A p \in Orderings(SetOf(cards)) :
      /\ get_best_hand(p).hand = result
      /\ SetOf(get_best_hand(p).cards) = SetOf(seen)

(* C5: the result of a call keeps showing the same relevant cards however  *)
(* many calls on other hands follow.                                       *)
C5_ResultKept == held # None => hand_cards[held.hand] = held.cards

(* C6: with two calls on disjoint hands interleaved, each caller reads     *)
(* relevant cards taken from its own hand, the ones a call alone gives.    *)
C6_ThreadsIsolated ==
  \A t \in Threads :
    t_pc[t] = "done" /\ t_result[t] \in HandNames =>
      /\ SetOf(t_seen[t]) \subseteq SetOf(t_cards[t])
      /\ t_seen[t] = get_best_hand(t_cards[t]).cards

(* C7: the relevant cards of a returned result are cards of the hand       *)
(* passed in, none of them twice.                                          *)
C7_SubsetFaithful ==
  Returned =>
    /\ SetOf(seen) \subseteq SetOf(cards)
    /\ Cardinality(SetOf(seen)) = Len(seen)

C7_Witness == Returned /\ result = "TWO_PAIR" /\ Len(cards) = 7

(* number of relevant cards of each category                               *)
RelevantCount ==
  [ROYAL_FLUSH |-> 5, STRAIGHT_FLUSH |-> 5, FOUR_OF_A_KIND |-> 4,
   FULL_HOUSE |-> 5, FLUSH |-> 5, STRAIGHT |-> 5, THREE_OF_A_KIND |-> 3,
   TWO_PAIR |-> 4, PAIR |-> 2, HIGH_CARD |-> 1]

(* C8: a returned result holds exactly as many relevant cards as its       *)
(* category asks for.                                                      *)
C8_Cardinality == Returned => Len(seen) = RelevantCount[result]

C8_Witness ==
  /\ Returned
  /\ result = "FLUSH"
  /\ CountSuit(SetOf(cards), seen[1].suit) >= 6

(* what each detector gives on its own, in the order of the table          *)
Detectors(cs) ==
  << get_royal_flush(get_consecutive_values(cs)),
     get_straight_flush(get_consecutive_values(cs)),
     get_four_of_a_kind(get_same_values(cs)),
     get_full_house(get_same_values(cs)),
     get_flush(cs),
     get_straight(get_consecutive_values(cs)),
     get_three_of_a_kind(get_same_values(cs)),
     get_two_pair(get_same_values(cs)),
     get_pair(get_same_values(cs)),
     get_high_card(cs) >>

FirstMatch(cs) ==
  CHOOSE k \in 1..10 :
    /\ Detectors(cs)[k].hand \in HandNames
    /\ \A m \in 1..(k - 1) : Detectors(cs)[m].hand \notin HandNames

(* C9: the call returns the result of the first detector, in the order of  *)
(* the table, that matches.                                                *)
C9_FirstMatchWins ==
  calls = 1 =>
    /\ result = Detectors(cards)[FirstMatch(cards)].hand
    /\ seen = Detectors(cards)[FirstMatch(cards)].cards

Royal(suit) == {Card(suit, v) : v \in royal_flush_values}

(* C10: a hand holding ten, jack, queen, king and ace of one suit          *)
(* evaluates to ROYAL_FLUSH with exactly those five cards.                 *)
C10_RoyalFlush ==
  calls = 1 =>
    \A suit \in Suit :
      Royal(suit) \subseteq SetOf(cards) =>
        result = "ROYAL_FLUSH" /\ SetOf(seen) = Royal(suit)

(* the suited runs of five in S: suit and lowest rank, the top card at     *)
(* most a king                                                             *)
SuitedRuns(S) ==
  {sr \in Suit \X (2..9) :
     \A k \in 0..4 : Card(sr[1], sr[2] + k) \in S}

TopSuitedRun(S) ==
  CHOOSE sr \in SuitedRuns(S) : \A other \in SuitedRuns(S) : other[2] <= sr[2]

(* C11: a hand holding five cards of one suit with five consecutive ranks  *)
(* (king high at most) evaluates to STRAIGHT_FLUSH with the five highest   *)
(* such cards.                                                             *)
C11_StraightFlush ==
  calls = 1 /\ SuitedRuns(SetOf(cards)) # {} =>
    /\ result = "STRAIGHT_FLUSH"
    /\ SetOf(seen) = {Card(TopSuitedRun(SetOf(cards))[1],
                           TopSuitedRun(SetOf(cards))[2] + k) : k \in 0..4}

(* C12: a hand holding all four cards of one rank evaluates to             *)
(* FOUR_OF_A_KIND with exactly those four cards.                           *)
C12_FourOfAKind ==
  calls = 1 =>
    \A v \in Value :
      CountValue(SetOf(cards), v) = 4 =>
        /\ result = "FOUR_OF_A_KIND"
        /\ SetOf(seen) = {c \in SetOf(cards) : c.value = v}

(* rank of a card value as specified: ace above king                       *)
ValueRank(v) == IF v = ACE THEN KING + 1 ELSE v

(* the values held by at least n cards of S                                *)
ValuesOfSize(S, n) == {v \in Value : CountValue(S, v) >= n}

TopValue(V) == CHOOSE v \in V : \A w \in V : ValueRank(w) <= ValueRank(v)

HasFullHouse(S) ==
  /\ ValuesOfSize(S, 4) = {}
  /\ ValuesOfSize(S, 3) # {}
  /\ ValuesOfSize(S, 2) \ {TopValue(ValuesOfSize(S, 3))} # {}

(* C13: a hand without four of a kind that holds three cards of one rank   *)
(* and two of another evaluates to FULL_HOUSE: three cards of the highest  *)
(* trip, then two cards of the highest other group.                        *)
C13_FullHouse ==
  calls = 1 /\ HasFullHouse(SetOf(cards)) =>
    /\ result = "FULL_HOUSE"
    /\ Len(seen) = 5
    /\ \A k \in 1..3 : seen[k].value = TopValue(ValuesOfSize(SetOf(cards), 3))
    /\ \A k \in 4..5 :
         seen[k].value =
           TopValue(ValuesOfSize(SetOf(cards), 2)
                      \ {TopValue(ValuesOfSize(SetOf(cards), 3))})

ThreePairs(S) ==
  /\ Cardinality(S) \in 6..7
  /\ ValuesOfSize(S, 3) = {}
  /\ Cardinality(ValuesOfSize(S, 2)) >= 3

(* C14: a hand of 6 or 7 cards with three paired ranks and nothing better  *)
(* evaluates to TWO_PAIR made of the two highest pairs.                    *)
C14_TwoHighestPairs ==
  calls = 1 /\ ThreePairs(SetOf(cards)) =>
    /\ result = "TWO_PAIR"
    /\ SetOf(seen) =
         {c \in SetOf(cards) :
            \/ c.value = TopValue(ValuesOfSize(SetOf(cards), 2))
            \/ c.value = TopValue(ValuesOfSize(SetOf(cards), 2)
                                    \ {TopValue(ValuesOfSize(SetOf(cards), 2))})}

(* five consecutive ranks in S, in the numbering of Card.Value or with the *)
(* ace above the king                                                      *)
HasRun(S) ==
  \E r \in ACE..TEN : \A k \in 0..4 : \E c \in S : Rank(c) = r + k \/ c.value = r + k

HasNothing(S) ==
  /\ ValuesOfSize(S, 2) = {}
  /\ ~HasRun(S)
  /\ \A suit \in Suit : CountSuit(S, suit) < 5

(* C15: a hand with no two cards of one rank, no five consecutive ranks    *)
(* and no five cards of one suit evaluates to HIGH_CARD, the relevant card *)
(* being its highest card with the ace above the king.                     *)
C15_HighCard ==
  calls = 1 /\ HasNothing(SetOf(cards)) =>
    /\ result = "HIGH_CARD"
    /\ Len(seen) = 1
    /\ \A c \in SetOf(cards) : Rank(c) <= Rank(seen[1])

MixedSuits(S) == \A suit \in Suit : CountSuit(S, suit) < 5

ValuesIn(S) == {c.value : c \in S}

(* five consecutive ranks with the ace above the king only                 *)
HasAceHighRun(S) ==
  \E r \in 2..TEN : \A k \in 0..4 : \E c \in S : Rank(c) = r + k

(* C16: the ace counts high only: a mixed-suit hand holding ten, jack,     *)
(* queen, king and ace evaluates to STRAIGHT topped by the ace, and a      *)
(* mixed-suit hand whose only run is ace, 2, 3, 4, 5 is no STRAIGHT.       *)
C16_AceHighOnly ==
  calls = 1 /\ MixedSuits(SetOf(cards)) =>
    /\ royal_flush_values \subseteq ValuesIn(SetOf(cards)) =>
         result = "STRAIGHT" /\ ValuesIn(SetOf(seen)) = royal_flush_values
    /\ (ACE..5) \subseteq ValuesIn(SetOf(cards)) /\ ~HasAceHighRun(SetOf(cards)) =>
         result # "STRAIGHT"

(* the suits of S holding at least six cards, none of them with five       *)
(* consecutive ranks in that suit                                          *)
LongSuits(S) ==
  {suit \in Suit :
     /\ CountSuit(S, suit) >= 6
     /\ ~HasRun({c \in S : c.suit = suit})}

(* the five highest cards of a suit of S, the ace above the king           *)
TopFive(S, suit) ==
  {c \in S : c.suit = suit
             /\ Cardinality({d \in S : d.suit = suit /\ Rank(d) > Rank(c)}) < 5}

(* C17: a hand with six or seven cards of one suit and no straight flush   *)
(* evaluates to FLUSH with the five highest cards of that suit, the ace    *)
(* counted highest.                                                        *)
C17_FlushTopFive ==
  calls = 1 =>
    \A suit \in LongSuits(SetOf(cards)) :
      result = "FLUSH" /\ SetOf(seen) = TopFive(SetOf(cards), suit)

Sequenced == {"STRAIGHT", "STRAIGHT_FLUSH", "FLUSH"}

TripThenPair(s) ==
  /\ Len(s) = 5
  /\ s[1].value = s[2].value /\ s[2].value = s[3].value
  /\ s[4].value = s[5].value
  /\ s[3].value # s[4].value

(* C18 as stated: the first relevant card of a STRAIGHT, STRAIGHT_FLUSH or *)
(* FLUSH is the highest of the five, and a FULL_HOUSE lists the trip       *)
(* before the pair.                                                        *)
C18_HighestFirst ==
  Returned =>
    /\ result \in Sequenced =>
         \A k \in 1..Len(seen) : Rank(seen[k]) <= Rank(seen[1])
    /\ result = "FULL_HOUSE" => TripThenPair(seen)

(* C18: the relevant cards of a STRAIGHT, STRAIGHT_FLUSH or FLUSH are in   *)
(* ascending order of Card.Value (ace = 1 first, greatest value last), and *)
(* a FULL_HOUSE lists the three trip cards before the two pair cards.      *)
C18_AscendingOrder ==
  Returned =>
    /\ result \in Sequenced =>
         \A k \in 1..(Len(seen) - 1) : seen[k].value < seen[k + 1].value
    /\ result = "FULL_HOUSE" => TripThenPair(seen)

C18_Witness ==
  /\ Returned
  /\ result = "FLUSH"
  /\ cards[1].value > cards[Len(cards)].value

(* the call was refused: it raised (InvalidHandSize, DuplicateCard or any  *)
(* other error) and gave no category                                       *)
Refused == result \notin HandNames

(* C19: a list of fewer than 5 or more than 7 cards is refused with an     *)
(* error; no category comes back for it.                                   *)
C19_InvalidHandSize ==
  calls = 1 /\ Len(cards) \notin HandSizes => Refused

(* C20: a list holding the same card twice is refused with an error; the   *)
(* repeated card never counts as a pair or a larger group.                 *)
C20_DuplicateCard ==
  calls = 1 /\ Cardinality(SetOf(cards)) < Len(cards) => Refused

----------------------------------------------------------------------------
(* Properties of the card model                                            *)

(* one suit letter and one rank character, in either order                 *)
IsNotation(s) ==
  /\ Len(s) = 2
  /\ \/ s[1] \in DOMAIN suit_map /\ s[2] \in DOMAIN value_map
     \/ s[2] \in DOMAIN suit_map /\ s[1] \in DOMAIN value_map

(* C21: a two-character string made of one suit letter and one rank        *)
(* character parses to a card, the same card as the string with its two    *)
(* characters exchanged; every other two-character string is refused with  *)
(* the invalid-notation error (ValueError) and gives no card.              *)
C21_Notation ==
  parsed # NotCalled /\ Len(card_str) = 2 =>
    IF IsNotation(card_str)
    THEN /\ parsed.error = "none"
         /\ parsed.card.suit \in Suit /\ parsed.card.value \in Value
         /\ from_str(Reverse(card_str)) = parsed
         /\ Len(made) = 1
    ELSE parsed = Raised("ValueError") /\ made = <<>>

C21_Witness ==
  /\ parsed.error = "none"
  /\ Len(card_str) = 2
  /\ card_str[1] \in DOMAIN value_map

(* C22: two cards, however they were constructed, compare equal and hash   *)
(* equal exactly when their suits and their ranks match.                   *)
C22_EqualIffSame ==
  \A a, b \in DOMAIN made :
    (eq(a, b) /\ hash(a) = hash(b))
      <=> (made[a].suit = made[b].suit /\ made[a].value = made[b].value)

----------------------------------------------------------------------------
(* Properties of the grouping helpers, on the hand of the evaluation       *)

(* the positions of a list holding a card of value v                       *)
Holding(s, v) == {k \in 1..Len(s) : s[k].value = v}

(* C23: get_same_values returns its groups highest rank first: each group  *)
(* is of a higher rank (ace above king) than the group after it.           *)
C23_HighestGroupFirst ==
  calls = 1 =>
    \A groups \in {get_same_values(cards)} :
      \A k \in 1..(Len(groups) - 1) :
        Rank(groups[k][1]) > Rank(groups[k + 1][1])

(* C24: get_same_values returns exactly one group for each rank held by    *)
(* two or more cards of the list, that group being all the cards of that   *)
(* rank and nothing else, and no group for a rank held by one card.        *)
C24_GroupContent ==
  calls = 1 =>
    \A groups \in {get_same_values(cards)} :
      /\ \A g \in DOMAIN groups :
           /\ Len(groups[g]) >= 2
           /\ \A c \in SetOf(groups[g]) : c.value = groups[g][1].value
      /\ \A v \in Value :
           IF Cardinality(Holding(cards, v)) >= 2
           THEN \E g \in DOMAIN groups :
                  /\ SetOf(groups[g]) = {cards[k] : k \in Holding(cards, v)}
                  /\ Len(groups[g]) = Cardinality(Holding(cards, v))
                  /\ \A h \in DOMAIN groups :
                       groups[h][1].value = v => h = g
           ELSE \A g \in DOMAIN groups : groups[g][1].value # v

C24_Witness ==
  /\ calls = 1
  /\ \E groups \in {get_same_values(cards)} :
       /\ Len(groups) >= 2
       /\ \E g \in DOMAIN groups : Len(groups[g]) >= 3
  /\ \E v \in Value : Cardinality(Holding(cards, v)) = 1

(* C25: in every run returned by get_consecutive_values the cards ascend   *)
(* by exactly one rank from each card to the next, also when the list      *)
(* holds a rank twice.                                                     *)
C25_RunsStepByOne ==
  calls = 1 =>
    \A runs \in {get_consecutive_values(cards)} :
      \A g \in DOMAIN runs : StepsByOne(runs[g])

(* C26: whenever the list holds a card of each of the ranks r .. r+k       *)
(* (k >= 1, in the numbering of Card.Value), one returned run covers all   *)
(* of these ranks, whether or not a rank is held twice.                    *)
C26_RunsMaximal ==
  calls = 1 =>
    \A runs \in {get_consecutive_values(cards)} :
      \A r \in Value : \A top \in (r + 1)..KING :
        (r..top) \subseteq ValuesIn(SetOf(cards)) =>
          \E g \in DOMAIN runs : (r..top) \subseteq ValuesIn(SetOf(runs[g]))

(* C27: the five relevant cards of a returned STRAIGHT_FLUSH are of one    *)
(* suit and their ranks are five consecutive values.                       *)
C27_StraightFlushSound ==
  calls = 1 /\ result = "STRAIGHT_FLUSH" =>
    /\ Len(seen) = 5
    /\ \A k \in 1..Len(seen) : seen[k].suit = seen[1].suit
    /\ StepsByOne(Sorted(seen, "value"))

----------------------------------------------------------------------------
(* Properties of the bots                                                  *)

(* C29: whenever declare_action of either bot returns 'raise', the amount  *)
(* is at least the minimum raise and at most the maximum raise the caller  *)
(* offered in valid_actions, for every offer with 0 < min <= max.          *)
C29_LegalRaise ==
  declared.action = "raise" /\ 0 < declared.min /\ declared.min <= declared.max =>
    declared.min <= declared.amount /\ declared.amount <= declared.max

(* C30: between a round start and the next round result, committed_amount  *)
(* equals the sum of the bot's own calls and raises reported since the     *)
(* round start; a declare_action call in between does not change it.       *)
C30_CommittedTracked == in_round => this.committed_amount = reported

====
